---- MODULE Spec2Model ----
(***************************************************************************)
(* Model of src/xdg.rs: the icon index (IconLoader::new), icon rendering   *)
(* (IconLoader::load) and the catalogue of desktop entries                 *)
(* (DesktopEntries::new, DesktopEntries::set_scale_factor).                *)
(*                                                                         *)
(* Strings are sequences of one-character strings, so that strip_prefix,   *)
(* rsplit_once, split and the "last four characters" slice are computed.   *)
(***************************************************************************)
EXTENDS Integers, Sequences, FiniteSets, TLC

VARIABLES
  disk,          \* the icon files on disk: path -> content
  apps,          \* the *.desktop files that could be read, each a sequence of lines
  pc,            \* "start" until the constructor has run
  icons,         \* IconLoader::icons: icon name -> path
  entries,       \* DesktopEntries::entries: sequence of [icon, name, exec]
  scale_factor,  \* DesktopEntries::scale_factor (0 before construction)
  last,          \* the most recent call: [op, arg]
  calls,         \* the calls of IconLoader::load made by that call, in order
  parsed,        \* name, icon, exec and lines read per desktop file, by new
  chunk          \* one 4-byte chunk of decoded pixels: [in, out]

vars == <<disk, apps, pc, icons, entries, scale_factor, last, calls, parsed, chunk>>

(***************************************************************************)
(* Bounds of the model.                                                    *)
(***************************************************************************)
MaxFiles == 3
MaxScale == 3
MaxLines == 4
MaxApps == 2

ScaleFactors == 1..MaxScale

(***************************************************************************)
(* Option values.                                                          *)
(***************************************************************************)
None == [some |-> FALSE]
Some(v) == [some |-> TRUE, v |-> v]

(***************************************************************************)
(* String literals of the source.                                          *)
(***************************************************************************)
PNG == <<"p", "n", "g">>
SVG == <<"s", "v", "g">>
DotPng == <<".">> \o PNG
DotSvg == <<".">> \o SVG
UsrShare == <<"/", "u", "s", "r", "/", "s", "h", "a", "r", "e", "/">>
Hicolor == UsrShare \o <<"i", "c", "o", "n", "s", "/", "h", "i", "c", "o", "l", "o", "r", "/">>
AppsDir == <<"/", "a", "p", "p", "s", "/">>
Dir32 == Hicolor \o <<"3", "2", "x", "3", "2">> \o AppsDir
Dir64 == Hicolor \o <<"6", "4", "x", "6", "4">> \o AppsDir
Dir256 == Hicolor \o <<"2", "5", "6", "x", "2", "5", "6">> \o AppsDir
DirScalable == Hicolor \o <<"s", "c", "a", "l", "a", "b", "l", "e">> \o AppsDir
Dir128 == Hicolor \o <<"1", "2", "8", "x", "1", "2", "8">> \o AppsDir
DirPixmaps == UsrShare \o <<"p", "i", "x", "m", "a", "p", "s", "/">>

\* const ICON_PATHS: the lookup paths, lowest priority first.
ICON_PATHS ==
  << [dir |-> Dir32, ext |-> PNG],
     [dir |-> Dir64, ext |-> PNG],
     [dir |-> Dir256, ext |-> PNG],
     [dir |-> DirScalable, ext |-> SVG],
     [dir |-> Dir128, ext |-> PNG],
     [dir |-> DirPixmaps, ext |-> SVG],
     [dir |-> DirPixmaps, ext |-> PNG] >>

IconDirs == {ICON_PATHS[i].dir : i \in DOMAIN ICON_PATHS}

\* const ICON_SIZE
ICON_SIZE == 64

NamePrefix == <<"N", "a", "m", "e", "=">>
IconPrefix == <<"I", "c", "o", "n", "=">>
ExecPrefix == <<"E", "x", "e", "c", "=">>

(***************************************************************************)
(* String functions of the standard library, as the code uses them.        *)
(***************************************************************************)
\* str::strip_prefix
StripPrefix(s, prefix) ==
  IF Len(s) >= Len(prefix) /\ SubSeq(s, 1, Len(prefix)) = prefix
  THEN Some(SubSeq(s, Len(prefix) + 1, Len(s)))
  ELSE None

\* str::rsplit_once: split at the LAST occurrence of the delimiter.
RSplitOnce(s, ch) ==
  LET hits == {i \in 1..Len(s) : s[i] = ch} IN
  IF hits = {} THEN None
  ELSE LET i == CHOOSE k \in hits : \A j \in hits : j <= k IN
       Some([left |-> SubSeq(s, 1, i - 1), right |-> SubSeq(s, i + 1, Len(s))])

\* value.split(' ').next(): the text before the first space (always Some).
FirstToken(s) ==
  LET hits == {i \in 1..Len(s) : s[i] = " "} IN
  IF hits = {} THEN Some(s)
  ELSE LET i == CHOOSE k \in hits : \A j \in hits : k <= j IN
       Some(SubSeq(s, 1, i - 1))

(***************************************************************************)
(* The filesystem: disk maps a path [dir, file] to what is stored there.   *)
(***************************************************************************)
Absent == [kind |-> "absent", w |-> 0, h |-> 0, bpp |-> 0]
Directory == [kind |-> "dir", w |-> 0, h |-> 0, bpp |-> 0]
Garbage == [kind |-> "garbage", w |-> 0, h |-> 0, bpp |-> 0]
Scene == [kind |-> "scene", w |-> 0, h |-> 0, bpp |-> 0]
Bitmap(w, h, bpp) == [kind |-> "bitmap", w |-> w, h |-> h, bpp |-> bpp]

\* DirEntry::file_type().is_file()
IsFile(c) == c.kind \in {"bitmap", "scene", "garbage"}

\* What a read of path p finds.
Stored(dsk, p) == IF p \in DOMAIN dsk THEN dsk[p] ELSE Absent

\* PathBuf::to_string_lossy of dir.join(file_name); every dir ends in '/'.
PathStr(p) == p.dir \o p.file

(***************************************************************************)
(* IconLoader::new: the index from icon name to path.                      *)
(***************************************************************************)
EmptyMap == [n \in {} |-> None]

\* Insert, were the first path stored for a name kept.
InsertIfAbsent(ics, name, path) ==
  [n \in DOMAIN ics \cup {name} |-> IF n \in DOMAIN ics THEN ics[n] ELSE path]

\* HashMap::insert: a later insert replaces the stored path.
Insert(ics, name, path) ==
  [n \in DOMAIN ics \cup {name} |-> IF n = name THEN path ELSE ics[n]]

\* IconName, were the extension not compared with the directory's.
IconNameAnyExtension(file_name, extension) ==
  LET parts == RSplitOnce(file_name, ".") IN
  IF parts.some THEN Some(parts.v.left) ELSE None

\* file_name.rsplit_once('.').filter(|(_, ext)| ext == extension)
IconName(file_name, extension) ==
  LET parts == RSplitOnce(file_name, ".") IN
  IF parts.some /\ parts.v.right = extension THEN Some(parts.v.left) ELSE None

\* The regular files of one directory (a missing directory lists nothing).
ListFiles(dsk, dir) == {p \in DOMAIN dsk : p.dir = dir /\ IsFile(dsk[p])}

\* The inner loop of IconLoader::new over the files of one directory.
RECURSIVE ScanFiles(_, _, _)
ScanFiles(ics, files, extension) ==
  IF files = {} THEN ics
  ELSE LET file == CHOOSE p \in files : TRUE
           name == IconName(file.file, extension)
           next == IF name.some THEN Insert(ics, name.v, file) ELSE ics
       IN ScanFiles(next, files \ {file}, extension)

\* The outer loop of IconLoader::new over ICON_PATHS, from entry i on.
RECURSIVE ScanPaths(_, _, _)
ScanPaths(ics, dsk, i) ==
  IF i > Len(ICON_PATHS) THEN ics
  ELSE ScanPaths(ScanFiles(ics, ListFiles(dsk, ICON_PATHS[i].dir), ICON_PATHS[i].ext),
                 dsk, i + 1)

IconLoaderNew(dsk) == ScanPaths(EmptyMap, dsk, 1)

(***************************************************************************)
(* IconLoader::load.                                                       *)
(***************************************************************************)
NoIcon == [data |-> [len |-> 0, src |-> Absent, w |-> 0, h |-> 0], width |-> 0, name |-> <<>>]

Ok(icon, branch) == [ok |-> TRUE, err |-> "", branch |-> branch, icon |-> icon]
Err(e, branch) == [ok |-> FALSE, err |-> e, branch |-> branch, icon |-> NoIcon]

\* DynamicImage::resize(size, size, _): the largest image of the source's
\* aspect ratio that fits in size x size, each side at least 1.
Max(a, b) == IF a >= b THEN a ELSE b
RoundDiv(n, d) == (2 * n + d) \div (2 * d)
ResizeDims(w, h, size) ==
  IF h <= w THEN <<Max(RoundDiv(w * size, w), 1), Max(RoundDiv(h * size, w), 1)>>
  ELSE <<Max(RoundDiv(w * size, h), 1), Max(RoundDiv(h * size, h), 1)>>

\* "Resize buffer if needed": only when BOTH sides differ from size.
Resized(c, size) ==
  IF c.w # size /\ c.h # size THEN ResizeDims(c.w, c.h, size) ELSE <<c.w, c.h>>

\* The ".png" arm: open, decode, resize, premultiply, into_bytes.
LoadPng(c, size, name) ==
  IF c.kind \in {"absent", "dir"} THEN Err("Io", "png")
  ELSE IF c.kind # "bitmap" THEN Err("Image", "png")
  ELSE LET dims == Resized(c, size) IN
       Ok([data |-> [len |-> dims[1] * dims[2] * c.bpp, src |-> c,
                     w |-> dims[1], h |-> dims[2]],
           width |-> dims[1], name |-> name], "png")

\* Svg::from_path(path, size) of crate::svg: an RGBA8 buffer of size x size.
SvgFromPath(c, size) ==
  IF c.kind = "scene"
  THEN Some([data |-> [len |-> size * size * 4, src |-> c, w |-> size, h |-> size],
             width |-> size])
  ELSE None

\* The ".svg" arm.
LoadSvg(c, size, name) ==
  LET svg == SvgFromPath(c, size) IN
  IF svg.some THEN Ok([data |-> svg.v.data, width |-> svg.v.width, name |-> name], "svg")
  ELSE Err("Svg", "svg")

\* match &path_str[path_str.len() - 4..]
Dispatch(path_str) ==
  IF Len(path_str) < 4 THEN "slice_panic"
  ELSE LET tail == SubSeq(path_str, Len(path_str) - 3, Len(path_str)) IN
       IF tail = DotPng THEN "png"
       ELSE IF tail = DotSvg THEN "svg"
       ELSE "unreachable"

Load(ics, dsk, icon, size) ==
  IF icon \notin DOMAIN ics THEN Err("NotFound", "none")
  ELSE LET path == ics[icon]
           arm == Dispatch(PathStr(path))
       IN IF arm = "png" THEN LoadPng(Stored(dsk, path), size, icon)
          ELSE IF arm = "svg" THEN LoadSvg(Stored(dsk, path), size, icon)
          ELSE Err("panic", arm)

\* One call of load, as recorded in calls.
Call(ics, dsk, icon, size) ==
  [name |-> icon, size |-> size, res |-> Load(ics, dsk, icon, size)]

(***************************************************************************)
(* Premultiplication of one 4-byte chunk (lines 196-200), in f32.          *)
(* c as f32 * a as f32 is exact (below 2^24).  The quotient by 255.0 is    *)
(* rounded to a 24-bit significand m with n binary places, ties to even;   *)
(* f32::round rounds m / 2^n half away from zero; as u8 saturates.         *)
(***************************************************************************)
Pow2(n) == 2 ^ n

\* Long division of p * 2^n by 255 until the quotient has 24 bits.
RECURSIVE Significand(_, _, _)
Significand(q, r, n) ==
  IF q >= Pow2(23) THEN [q |-> q, r |-> r, n |-> n]
  ELSE Significand(2 * q + (2 * r) \div 255, (2 * r) % 255, n + 1)

\* p as f32 / 255.0, as the pair (m, n) standing for m / 2^n.
F32Div255(p) ==
  IF p = 0 THEN [m |-> 0, n |-> 1]
  ELSE LET s == Significand(p \div 255, p % 255, 0)
           up == IF 2 * s.r > 255 \/ (2 * s.r = 255 /\ s.q % 2 = 1) THEN 1 ELSE 0
       IN [m |-> s.q + up, n |-> s.n]

\* RoundToU8, were the call of round() left out: `as u8` truncates.
TruncToU8(x) ==
  LET v == (x.m \div Pow2(x.n - 1)) \div 2 IN
  IF v > 255 THEN 255 ELSE v

\* f32::round, then `as u8`.
RoundToU8(x) ==
  LET v == ((x.m \div Pow2(x.n - 1)) + 1) \div 2 IN
  IF v > 255 THEN 255 ELSE v

PremultiplyChannel(c, a) == RoundToU8(F32Div255(c * a))

PremultiplyChunk(px) ==
  <<PremultiplyChannel(px[1], px[4]), PremultiplyChannel(px[2], px[4]),
    PremultiplyChannel(px[3], px[4]), px[4]>>

(***************************************************************************)
(* DesktopEntries::new: the per-file line loop and the loop over files.    *)
(***************************************************************************)
\* IconSize, were the scale factor left out.
IconSizeUnscaled(sf) == ICON_SIZE

\* DesktopEntries::icon_size
IconSize(sf) == ICON_SIZE * sf

\* let mut icon = None; let mut exec = None; let mut name = None;
Fresh == [name |-> None, icon |-> None, exec |-> None, read |-> 0, calls |-> <<>>]

Complete(st) == st.icon.some /\ st.exec.some /\ st.name.some

\* The body of `for line in desktop_file.lines()` before the break test.
ReadLine(st, line, ics, dsk, size) ==
  LET n == StripPrefix(line, NamePrefix)
      i == StripPrefix(line, IconPrefix)
      e == StripPrefix(line, ExecPrefix)
      seen == [st EXCEPT !.read = st.read + 1]
  IN IF n.some THEN [seen EXCEPT !.name = Some(n.v)]
     ELSE IF i.some
     THEN LET c == Call(ics, dsk, i.v, size) IN
          [seen EXCEPT !.icon = IF c.res.ok THEN Some(c.res.icon) ELSE None,
                       !.calls = Append(st.calls, c)]
     ELSE IF e.some THEN [seen EXCEPT !.exec = FirstToken(e.v)]
     ELSE seen

\* The line loop from line k on, with its break once all three are set.
RECURSIVE ReadLines(_, _, _, _, _, _)
ReadLines(st, lines, k, ics, dsk, size) ==
  IF k > Len(lines) THEN st
  ELSE LET next == ReadLine(st, lines[k], ics, dsk, size) IN
       IF Complete(next) THEN next
       ELSE ReadLines(next, lines, k + 1, ics, dsk, size)

ParseFile(lines, ics, dsk, size) == ReadLines(Fresh, lines, 1, ics, dsk, size)

\* if let Some(((name, icon), exec)) = name.zip(icon).zip(exec) { push }
Push(ents, st) ==
  IF Complete(st)
  THEN Append(ents, [icon |-> st.icon.v, name |-> st.name.v, exec |-> st.exec.v])
  ELSE ents

\* ReadFiles, were a failed load to end the enumeration.
RECURSIVE ReadFilesUntilError(_, _, _, _, _, _)
ReadFilesUntilError(acc, files, k, ics, dsk, size) ==
  IF k > Len(files) THEN acc
  ELSE LET st == ParseFile(files[k], ics, dsk, size) IN
       IF \E j \in DOMAIN st.calls : ~st.calls[j].res.ok THEN acc
       ELSE ReadFilesUntilError(
              [entries |-> Push(acc.entries, st), parsed |-> Append(acc.parsed, st)],
              files, k + 1, ics, dsk, size)

\* The loop over the desktop files, from file k on; acc = [entries, parsed].
RECURSIVE ReadFiles(_, _, _, _, _, _)
ReadFiles(acc, files, k, ics, dsk, size) ==
  IF k > Len(files) THEN acc
  ELSE LET st == ParseFile(files[k], ics, dsk, size) IN
       ReadFiles([entries |-> Push(acc.entries, st), parsed |-> Append(acc.parsed, st)],
                 files, k + 1, ics, dsk, size)

RECURSIVE Flatten(_)
Flatten(ss) == IF ss = <<>> THEN <<>> ELSE Head(ss) \o Flatten(Tail(ss))

(***************************************************************************)
(* DesktopEntries::set_scale_factor: the loop body for one entry.          *)
(***************************************************************************)
\* Rerender, were the icon of a failed re-render discarded.
RerenderOrDiscard(entry, c) == [entry EXCEPT !.icon = c.res.icon]

\* if let Ok(icon) = self.loader.load(&entry.icon.name, icon_size) { entry.icon = icon; }
Rerender(entry, c) ==
  IF c.res.ok THEN [entry EXCEPT !.icon = c.res.icon] ELSE entry

\* The load calls of `for entry in &mut self.entries`.
RescaleCalls(ents, ics, dsk, size) ==
  [i \in 1..Len(ents) |-> Call(ics, dsk, ents[i].icon.name, size)]

\* RescaleEntries, were the loop left at the first failed re-render.
RescaleEntriesUntilFailure(ents, cs) ==
  [i \in 1..Len(ents) |->
     IF \E j \in 1..i : ~cs[j].res.ok THEN ents[i] ELSE Rerender(ents[i], cs[i])]

RescaleEntries(ents, cs) ==
  [i \in 1..Len(ents) |-> Rerender(ents[i], cs[i])]

\* SetScaleFactorResult, without the early return on an unchanged factor.
SetScaleFactorAlways(ents, ics, dsk, cur, f) ==
  LET cs == RescaleCalls(ents, ics, dsk, IconSize(f)) IN
  [scale_factor |-> f, entries |-> RescaleEntries(ents, cs), calls |-> cs]

\* set_scale_factor as a function of the object's fields and its argument.
SetScaleFactorResult(ents, ics, dsk, cur, f) ==
  IF cur = f
  THEN [scale_factor |-> cur, entries |-> ents, calls |-> <<>>]
  ELSE LET cs == RescaleCalls(ents, ics, dsk, IconSize(f)) IN
       [scale_factor |-> f, entries |-> RescaleEntries(ents, cs), calls |-> cs]

\* DesktopEntries::new as a function of the disk, the desktop files and its argument.
DesktopEntriesNewResult(dsk, files, sf) ==
  LET ics == IconLoaderNew(dsk)
      acc == ReadFiles([entries |-> <<>>, parsed |-> <<>>], files, 1, ics, dsk, IconSize(sf))
  IN [icons |-> ics, entries |-> acc.entries, parsed |-> acc.parsed,
      calls |-> Flatten([k \in 1..Len(acc.parsed) |-> acc.parsed[k].calls])]

(***************************************************************************)
(* Sample inputs.                                                          *)
(***************************************************************************)
Foo == <<"f", "o", "o">>
Bar == <<"b", "a", "r">>
Baz == <<"b", "a", "z">>
AB == <<"a", ".", "b">>

FooPng == Foo \o DotPng
FooSvg == Foo \o DotSvg
ABSvg == AB \o DotSvg
BarSvg == Bar \o DotSvg

\* File names found in the icon directories: two formats of one name, a name
\* with a dot in it, and a name with no extension at all.
FileNames == {FooPng, FooSvg, ABSvg, PNG}
IconNames == {Foo, AB, <<"a">>, PNG}

FileNameSeq == <<FooPng, FooSvg, ABSvg, PNG>>
DirSeq == <<Dir32, Dir64, Dir256, DirScalable, Dir128, DirPixmaps>>

\* The k-th candidate path: every file name in every icon directory.
NumIndexPaths == Len(DirSeq) * Len(FileNameSeq)
IndexPath(k) ==
  [dir |-> DirSeq[((k - 1) \div Len(FileNameSeq)) + 1],
   file |-> FileNameSeq[((k - 1) % Len(FileNameSeq)) + 1]]

\* What a file holds when its content fits its name.
DefaultContent(p) ==
  IF Len(p.file) >= 4 /\ SubSeq(p.file, Len(p.file) - 3, Len(p.file)) = DotSvg
  THEN Scene ELSE Bitmap(64, 64, 4)

RECURSIVE SetsUpTo(_, _)
SetsUpTo(S, k) ==
  IF k = 0 THEN {{}}
  ELSE LET smaller == SetsUpTo(S, k - 1) IN
       smaller \cup {T \cup {x} : T \in smaller, x \in S}

\* A disk holding the candidate paths numbered in present, those numbered in
\* dirs as directories and the others as files whose content fits their name.
DiskOf(present, dirs) ==
  [p \in {IndexPath(k) : k \in present} |->
     IF p \in {IndexPath(k) : k \in dirs} THEN Directory ELSE DefaultContent(p)]

PixFooPng == [dir |-> DirPixmaps, file |-> FooPng]
ScalBarSvg == [dir |-> DirScalable, file |-> BarSvg]
LifePaths == {PixFooPng, ScalBarSvg}
LifeContents ==
  {Absent, Garbage, Scene, Bitmap(64, 64, 4), Bitmap(32, 64, 4), Bitmap(128, 32, 3)}

NameA == NamePrefix \o <<"A">>
NameB == NamePrefix \o <<"B">>
IconFoo == IconPrefix \o Foo
IconBar == IconPrefix \o Bar
IconBaz == IconPrefix \o Baz
ExecXY == ExecPrefix \o <<"x", " ", "y">>
ExecZ == ExecPrefix \o <<"z">>
Lines == {NameA, NameB, IconFoo, IconBar, IconBaz, ExecXY}

FooApp == <<NameA, IconFoo, ExecXY>>
BarApp == <<NameB, IconBar, ExecZ>>
LifeApps == {<<FooApp, BarApp>>, <<BarApp, FooApp, FooApp>>, <<FooApp>>}

\* The desktop files got by cutting the lines of flat after each position in
\* cuts: a list of non-empty files.
RECURSIVE CutFrom(_, _, _)
CutFrom(flat, cuts, from) ==
  IF from > Len(flat) THEN <<>>
  ELSE LET later == {c \in cuts : c >= from}
           to == IF later = {} THEN Len(flat)
                 ELSE CHOOSE c \in later : \A d \in later : c <= d
       IN <<SubSeq(flat, from, to)>> \o CutFrom(flat, cuts, to + 1)

\* foo is a good bitmap; bar is indexed but does not render; baz is not indexed.
ParseDisk == [p \in LifePaths |-> IF p = PixFooPng THEN Bitmap(64, 64, 4) ELSE Garbage]

Bytes == 0..255
SampleBytes == {127, 255}
NoChunk == [in |-> <<0, 0, 0, 0>>, out |-> <<0, 0, 0, 0>>]
NoCall == [op |-> "none", arg |-> 0]

(***************************************************************************)
(* Initial states.                                                         *)
(***************************************************************************)
Unbuilt ==
  /\ pc = "start"
  /\ icons = EmptyMap
  /\ entries = <<>>
  /\ scale_factor = 0
  /\ last = NoCall
  /\ calls = <<>>
  /\ parsed = <<>>

Init ==
  /\ disk \in [LifePaths -> LifeContents]
  /\ apps \in LifeApps
  /\ chunk = NoChunk
  /\ Unbuilt

InitIndex ==
  /\ \E S \in SetsUpTo(1..NumIndexPaths, MaxFiles) : \E D \in SetsUpTo(S, 1) :
       disk = DiskOf(S, D)
  /\ apps = <<>>
  /\ chunk = NoChunk
  /\ Unbuilt

InitParse ==
  /\ disk = ParseDisk
  /\ \E n \in 0..MaxLines : \E flat \in [1..n -> Lines] :
       \E cuts \in SetsUpTo(1..(n - 1), MaxApps - 1) : apps = CutFrom(flat, cuts, 1)
  /\ chunk = NoChunk
  /\ Unbuilt

InitPixel ==
  /\ disk = ParseDisk
  /\ apps = <<>>
  /\ \E r \in Bytes, a \in Bytes, g \in SampleBytes, b \in SampleBytes :
       chunk = [in |-> <<r, g, b, a>>, out |-> <<r, g, b, a>>]
  /\ Unbuilt

(***************************************************************************)
(* Actions.                                                                *)
(***************************************************************************)
\* DesktopEntries::new(scale_factor)
DesktopEntriesNew(sf) ==
  /\ pc = "start"
  /\ LET r == DesktopEntriesNewResult(disk, apps, sf) IN
       /\ icons' = r.icons
       /\ entries' = r.entries
       /\ parsed' = r.parsed
       /\ calls' = r.calls
  /\ scale_factor' = sf
  /\ pc' = "ready"
  /\ last' = [op |-> "new", arg |-> sf]
  /\ UNCHANGED <<disk, apps, chunk>>

\* DesktopEntries::set_scale_factor(f)
SetScaleFactor(f) ==
  /\ pc = "ready"
  /\ LET r == SetScaleFactorResult(entries, icons, disk, scale_factor, f) IN
       /\ scale_factor' = r.scale_factor
       /\ entries' = r.entries
       /\ calls' = r.calls
  /\ parsed' = <<>>
  /\ last' = [op |-> "set_scale_factor", arg |-> f]
  /\ UNCHANGED <<disk, apps, pc, icons, chunk>>

\* The environment rewrites, removes or creates an icon file between calls.
DiskChange(p, c) ==
  /\ pc = "ready"
  /\ disk[p] # c
  /\ disk' = [disk EXCEPT ![p] = c]
  /\ last' = [op |-> "disk", arg |-> 0]
  /\ calls' = <<>>
  /\ parsed' = <<>>
  /\ UNCHANGED <<apps, pc, icons, entries, scale_factor, chunk>>

\* IconLoader::new()
IndexNew ==
  /\ pc = "start"
  /\ icons' = IconLoaderNew(disk)
  /\ pc' = "indexed"
  /\ last' = [op |-> "index", arg |-> 0]
  /\ UNCHANGED <<disk, apps, entries, scale_factor, calls, parsed, chunk>>

\* IconLoader::load(icon, size)
LoadIcon(icon, size) ==
  /\ pc = "indexed"
  /\ calls' = <<Call(icons, disk, icon, size)>>
  /\ pc' = "loaded"
  /\ last' = [op |-> "load", arg |-> size]
  /\ UNCHANGED <<disk, apps, icons, entries, scale_factor, parsed, chunk>>

\* The premultiplication loop on one decoded chunk.
Premultiply ==
  /\ pc = "start"
  /\ chunk' = [chunk EXCEPT !.out = PremultiplyChunk(chunk.in)]
  /\ pc' = "premultiplied"
  /\ last' = [op |-> "premultiply", arg |-> 0]
  /\ UNCHANGED <<disk, apps, icons, entries, scale_factor, calls, parsed>>

Next ==
  \/ \E sf \in ScaleFactors : DesktopEntriesNew(sf)
  \/ \E f \in ScaleFactors : SetScaleFactor(f)
  \/ \E p \in LifePaths, c \in LifeContents : DiskChange(p, c)

NextIndex ==
  \/ IndexNew
  \/ \E n \in IconNames : LoadIcon(n, IconSize(1))

NextParse == DesktopEntriesNew(1)

NextPixel == Premultiply

Spec == Init /\ [][Next]_vars
SpecIndex == InitIndex /\ [][NextIndex]_vars
SpecParse == InitParse /\ [][NextParse]_vars
SpecPixel == InitPixel /\ [][NextPixel]_vars

(***************************************************************************)
(* Vocabulary of the properties.                                           *)
(***************************************************************************)
\* The path of a file called name.ext in the directory of ICON_PATHS[i].
PathIn(i, name) ==
  [dir |-> ICON_PATHS[i].dir, file |-> name \o <<".">> \o ICON_PATHS[i].ext]

\* The entries of ICON_PATHS holding a regular file name.<extension>.
Holders(name) == {i \in DOMAIN ICON_PATHS : IsFile(Stored(disk, PathIn(i, name)))}
LastHolder(name) == CHOOSE i \in Holders(name) : \A j \in Holders(name) : j <= i

ArmOf(ext) == IF ext = PNG THEN "png" ELSE "svg"

\* This step is a call set_scale_factor(f) with f other than / equal to the current factor.
RescaleStep == pc = "ready" /\ last'.op = "set_scale_factor" /\ last'.arg # scale_factor
SameFactorStep == pc = "ready" /\ last'.op = "set_scale_factor" /\ last'.arg = scale_factor

\* The re-render of entry k at the size of the new factor, from the state before the call.
Render(k) == Load(icons, disk, entries[k].icon.name, 64 * last'.arg)

\* The state right after a rescale in which some re-render failed and some succeeded.
AfterMixedRescale ==
  /\ last.op = "set_scale_factor"
  /\ \E j \in DOMAIN calls : ~calls[j].res.ok
  /\ \E j \in DOMAIN calls : calls[j].res.ok

HasKey(file, prefix) == \E k \in DOMAIN file : StripPrefix(file[k], prefix).some
FirstValue(file, prefix) ==
  LET k == CHOOSE i \in DOMAIN file :
             /\ StripPrefix(file[i], prefix).some
             /\ \A j \in 1..(i - 1) : ~StripPrefix(file[j], prefix).some
  IN StripPrefix(file[k], prefix).v

LoadsOk(line) ==
  /\ StripPrefix(line, IconPrefix).some
  /\ Load(icons, disk, StripPrefix(line, IconPrefix).v, 64 * scale_factor).ok

\* The first i lines of file hold a Name= line, an Exec= line and an Icon=
\* line whose icon loads.
FoundBy(file, i) ==
  /\ HasKey(SubSeq(file, 1, i), NamePrefix)
  /\ HasKey(SubSeq(file, 1, i), ExecPrefix)
  /\ \E j \in 1..i : LoadsOk(file[j])

Yielded(k) == Complete(parsed[k])
Rank(k) == Cardinality({j \in 1..k : Yielded(j)})

(***************************************************************************)
(* C1: after IconLoader::new has scanned ICON_PATHS in order, an icon name *)
(* is in the index iff some (directory, extension) entry holds a regular   *)
(* file name.extension, and it is then mapped to the file of the LAST such *)
(* entry: an earlier directory never survives a collision.                 *)
(***************************************************************************)
C1_LastEntryWins ==
  pc # "start" =>
    \A n \in IconNames \cup DOMAIN icons :
      IF Holders(n) = {} THEN n \notin DOMAIN icons
      ELSE n \in DOMAIN icons /\ icons[n] = PathIn(LastHolder(n), n)

\* Three entries hold foo, in both formats, and the index has been built.
C1_Witness ==
  /\ pc = "indexed"
  /\ Cardinality(Holders(Foo)) >= 3
  /\ \E i, j \in Holders(Foo) : ICON_PATHS[i].ext # ICON_PATHS[j].ext
  /\ Foo \in DOMAIN icons

(***************************************************************************)
(* C2: whenever IconLoader::load(name, size) returns Ok(icon), the icon is *)
(* square at the requested size: icon.width == size and                    *)
(* icon.data.len() == size * size * 4, on the raster and the vector arm.   *)
(***************************************************************************)
C2_SizeContract ==
  \A k \in DOMAIN calls :
    calls[k].res.ok =>
      /\ calls[k].res.icon.width = calls[k].size
      /\ calls[k].res.icon.data.len = calls[k].size * calls[k].size * 4

(***************************************************************************)
(* C3: during set_scale_factor(f) with f other than the current factor, an *)
(* entry whose re-render fails keeps the Icon it had before the call.      *)
(***************************************************************************)
C3_FailedRerenderKeepsIcon ==
  [][RescaleStep =>
       /\ Len(entries') = Len(entries)
       /\ \A k \in DOMAIN entries : ~Render(k).ok => entries'[k].icon = entries[k].icon]_vars

\* After a rescale with a failed re-render the entry still holds a rendered icon.
C3_Witness ==
  /\ AfterMixedRescale
  /\ \E j \in DOMAIN calls : ~calls[j].res.ok /\ entries[j].icon.data.len > 0

(***************************************************************************)
(* C4: set_scale_factor(f) with f equal to the current factor is a no-op:  *)
(* scale_factor, the index and every entry stay as they are and load is    *)
(* not called.                                                             *)
(***************************************************************************)
C4_SameFactorNoOp ==
  [][SameFactorStep =>
       /\ scale_factor' = scale_factor
       /\ entries' = entries
       /\ icons' = icons
       /\ calls' = <<>>]_vars

\* A same-factor call made while an entry holds an icon of another size
\* than the current one (left by a failed re-render).
C4_Witness ==
  /\ last.op = "set_scale_factor"
  /\ calls = <<>>
  /\ \E k \in DOMAIN entries :
       /\ entries[k].icon.name \in DOMAIN icons
       /\ ~Load(icons, disk, entries[k].icon.name, 64 * scale_factor).ok
       /\ \E sf \in ScaleFactors :
            sf # scale_factor /\ entries[k].icon.data.w = 64 * sf

(***************************************************************************)
(* C5: set_scale_factor(f) with f other than the current factor sets       *)
(* scale_factor to f and re-renders every entry, by its stored icon name   *)
(* through the unchanged index, at size 64 * f; every entry whose          *)
(* re-render succeeded holds that render, and no entry is skipped.         *)
(***************************************************************************)
C5_RescaleRerendersAll ==
  [][RescaleStep =>
       /\ scale_factor' = last'.arg
       /\ icons' = icons
       /\ Len(entries') = Len(entries)
       /\ Len(calls') = Len(entries)
       /\ \A k \in DOMAIN entries :
            /\ calls'[k].name = entries[k].icon.name
            /\ calls'[k].size = 64 * last'.arg
            /\ calls'[k].res = Render(k)
            /\ Render(k).ok => entries'[k].icon = Render(k).icon
            /\ entries'[k].name = entries[k].name
            /\ entries'[k].exec = entries[k].exec]_vars

\* After a rescale to a larger factor every one of several entries was re-rendered.
C5_Witness ==
  /\ last.op = "set_scale_factor"
  /\ scale_factor > 1
  /\ Len(calls) >= 2
  /\ Len(entries) = Len(calls)
  /\ \A k \in DOMAIN calls :
       calls[k].res.ok /\ entries[k].icon = calls[k].res.icon
                       /\ calls[k].size = 64 * scale_factor

(***************************************************************************)
(* C6: a desktop file that yields an entry gives it the value of its FIRST *)
(* Name= line, the first token of its FIRST Exec= line and the icon loaded *)
(* from its FIRST Icon= line, and no line is read after the one by which   *)
(* all three keys have been seen.                                          *)
(***************************************************************************)
C6_FirstOccurrence ==
  pc = "ready" =>
    \A k \in DOMAIN parsed :
      Yielded(k) =>
        /\ parsed[k].name.v = FirstValue(apps[k], NamePrefix)
        /\ parsed[k].exec.v = FirstToken(FirstValue(apps[k], ExecPrefix)).v
        /\ parsed[k].icon.v.name = FirstValue(apps[k], IconPrefix)
        /\ ~FoundBy(apps[k], parsed[k].read - 1)

C8_PremultiplyRounds ==
  pc = "premultiplied" =>
    /\ chunk.out[4] = chunk.in[4]
    /\ \A i \in 1..3 :
         LET exact == chunk.in[i] * chunk.in[4]
             scaled == 255 * chunk.out[i]
         IN /\ chunk.out[i] \in 0..255
            /\ chunk.out[i] <= chunk.in[4]
            /\ 2 * (scaled - exact) <= 255
            /\ 2 * (exact - scaled) <= 255

\* A translucent pixel whose red channel was rounded up to a non-zero value.
C8_Witness ==
  /\ pc = "premultiplied"
  /\ chunk.in[4] \in 1..254
  /\ chunk.out[1] > 0
  /\ 255 * chunk.out[1] > chunk.in[1] * chunk.in[4]

(***************************************************************************)
(* C9 as stated: a full rescale is all-or-nothing: after                   *)
(* set_scale_factor(f) either scale_factor == f and every icon is its      *)
(* render at the new size, or scale_factor and every icon are as before.   *)
(***************************************************************************)
C9_AllOrNothing ==
  [][RescaleStep =>
       \/ /\ scale_factor' = last'.arg
          /\ \A k \in DOMAIN entries : Render(k).ok /\ entries'[k].icon = Render(k).icon
       \/ /\ scale_factor' = scale_factor
          /\ entries' = entries]_vars

(***************************************************************************)
(* C9 as amended: a rescale is atomic per entry, not as a whole: after     *)
(* set_scale_factor(f) with f other than the current factor,               *)
(* scale_factor == f in every case, and each entry is either unchanged     *)
(* (its re-render failed) or differs from before only in holding its       *)
(* render at the new size (its re-render succeeded).                       *)
(***************************************************************************)
C9_PerEntryAtomic ==
  [][RescaleStep =>
       /\ scale_factor' = last'.arg
       /\ DOMAIN entries' = DOMAIN entries
       /\ \A k \in DOMAIN entries :
            entries'[k] = IF Render(k).ok
                          THEN [entries[k] EXCEPT !.icon = Render(k).icon]
                          ELSE entries[k]]_vars

\* The factor was updated while an entry whose re-render failed still holds
\* the render for the size of another factor.
C9_Witness ==
  /\ AfterMixedRescale
  /\ last.arg = scale_factor
  /\ \E j \in DOMAIN calls :
       /\ calls[j].res.ok
       /\ \E k \in DOMAIN calls :
            /\ k > j
            /\ ~calls[k].res.ok
            /\ entries[k].icon.data.len > 0
            /\ entries[k].icon.data.w # entries[j].icon.data.w

(***************************************************************************)
(* C10: for every name in an index built by IconLoader::new, load          *)
(* dispatches on the last four characters of the stored path to the .png   *)
(* or the .svg arm, the arm of the extension declared for the ICON_PATHS   *)
(* entry the path came from; neither unreachable!() nor a panic of the     *)
(* len() - 4 slice is reached.                                             *)
(***************************************************************************)
C10_DispatchMatchesExtension ==
  /\ \A n \in DOMAIN icons :
       /\ Dispatch(PathStr(icons[n])) \in {"png", "svg"}
       /\ \E i \in DOMAIN ICON_PATHS :
            /\ icons[n] = PathIn(i, n)
            /\ Dispatch(PathStr(icons[n])) = ArmOf(ICON_PATHS[i].ext)
  /\ \A k \in DOMAIN calls :
       /\ calls[k].res.err # "panic"
       /\ calls[k].name \in DOMAIN icons =>
            calls[k].res.branch = ArmOf(ICON_PATHS[LastHolder(calls[k].name)].ext)

\* A load of a name held by /usr/share/pixmaps/ in both formats took an arm.
C10_Witness ==
  /\ pc = "loaded"
  /\ {6, 7} \subseteq Holders(Foo)
  /\ calls[1].name = Foo
  /\ calls[1].res.branch = "png"
  /\ calls[1].res.ok

====
